---- MODULE Spec2Model ----
(***************************************************************************)
(* Proxy checker: the run loop (main), the per-endpoint task (testProxy),  *)
(* the verification pass (testProxyWithSettings / performConnectionTest),  *)
(* the process supervisor (startSingbox and the teardown in finally) and   *)
(* the probe voting.  The repository holds several generations of the      *)
(* script; each is a value of `variant` and the actions follow the code of *)
(* that generation:                                                        *)
(*   index1  src/index.js lines 1-368                                      *)
(*   index2  src/index.js lines 370-845 (lines 846-1370 repeat its         *)
(*           control flow with another runSpeedtest body)                  *)
(*   part000 src/unnamed/part_000                                          *)
(*   part001 src/unnamed/part_001                                          *)
(*   part002 src/unnamed/part_002                                          *)
(*   part003 src/unnamed/part_003                                          *)
(* Time is counted in seconds since the spawn of the current process.      *)
(***************************************************************************)
EXTENDS Integers, Sequences, FiniteSets, TLC

\* ------------------------------------------------------------- bounds
MaxLinks == 2
MaxClock == 27
MaxStored == 31
MaxDays == 31
MaxAppends == 2
MaxWait == 2

VARIABLES
    variant,       \* which generation of the script runs
    links,         \* readLinks(): the candidate links, by kind
    twin,          \* the second link is the first one with another #name
    i,             \* main: loop index (0-based, as in the code)
    pc,            \* the position of the (single) async control flow
    results,       \* main: const results = []
    report,        \* the tested_<timestamp>.json file: written flag, content
                   \* and the number of writeFile calls made for it
    outbound,      \* testProxy: the descriptor object [tls, insecure]
    allowInsecure, \* testProxyWithSettings: the allowInsecure argument
    passes,        \* the passes the current task has finished
    procs,         \* every sing-box process spawned in the run
    cur,           \* index in procs of the current pass's process (0: none)
    handle,        \* singboxProcess is assigned (start returned a handle)
    started,       \* startSingbox: let started
    toArmed,       \* startSingbox: startupTimeout still pending
    graceArmed,    \* startSingbox: the 3000 ms liveness timer still pending
    settle,        \* startSingbox: deadlines of pending resolve timers
    ready,         \* startSingbox: what armed the resolve timer: "no" |
                   \* "marker" (checkStarted) | "grace" (the 3000 ms check)
    readyAt,       \* the time at which it was armed (-1: not yet)
    graceSaw,      \* what process.kill(pid, 0) of the 3000 ms check found:
                   \* "none" (not run) | "alive" | "dead"
    now,           \* seconds since spawn
    warm,          \* outcome of the warm-up probe: "none" | "ok" | "fail"
    attempts,      \* success flags of the counted probes, in order
    chosen,        \* attempt index of the probe surfaced as the pass result
    verdict,       \* "none" | "working" | "notworking"
    flight,        \* makeProxyRequest calls of the pass that have not returned
    sent,          \* makeProxyRequest calls the pass has made so far
    speed,         \* throughput measurement: "none" | "ok" | "fail"
    ipData,        \* testProxy: the data of the probe kept (ip, providers)
    geo,           \* the location fields of the outcome built from ipData
    entry,         \* registry: the ProxyEntry of one identity
    loaded,        \* registry: its checks as they came from storage
    log,           \* registry: the CheckEntries given to append, in call order
    today,         \* scheduler: the time now, in days
    selected       \* scheduler: isDue's answer for the entry: "unasked" or
                   \* a boolean

vars == <<variant, links, twin, i, pc, results, report, outbound, allowInsecure,
          passes, procs, cur, handle, started, toArmed, graceArmed, settle,
          ready, readyAt, graceSaw, now, warm, attempts, chosen, verdict,
          flight, sent, speed, ipData, geo, entry, loaded, log, today,
          selected>>

Variants == {"index1", "index2", "part000", "part001", "part002", "part003"}

\* A link either cannot be converted, or converts to an outbound without
\* TLS, or to one with tls.enabled.
LinkKinds == {"bad", "plain", "tls"}

\* ------------------------------------------------ per-generation traits
\* index.js: testProxy runs a second pass with allowInsecure = true.
TwoPass(v) == v \in {"index1", "index2"}

\* part_002: const ALLOW_INSECURE = true, applied to every config.
ALLOW_INSECURE(v) == v = "part002"

\* How the task waits for the process:
\*   "detect"  startSingbox with the started flag         (index.js)
\*   "detect2" startSingbox without the started flag      (part_002)
\*   "simple"  startSingbox with markers and timeout only (part_003)
\*   "sleep"   spawn and a fixed delay                    (part_000/001)
StartKind(v) ==
    CASE v \in {"index1", "index2"} -> "detect"
      [] v = "part002" -> "detect2"
      [] v = "part003" -> "simple"
      [] OTHER -> "sleep"

\* setTimeout(..., 20000) / setTimeout(..., 10000) around reject(timeout)
StartupTimeout(v) == IF v = "part003" THEN 10 ELSE 20

\* the 3000 ms "additional check"
GraceDelay == 3

\* STARTUP_DELAY (5000, 3000 or 2000 ms)
STARTUP_DELAY(v) ==
    CASE v \in {"index1", "index2", "part002"} -> 5
      [] v = "part003" -> 3
      [] OTHER -> 2

\* listen_port of the config written for link index idx
ListenPort(v, idx) ==
    CASE v = "part000" -> 20000 + idx
      [] v = "part001" -> 2080
      [] OTHER -> 10808

\* a separate warm-up request precedes the counted ones
HasWarmup(v) == v \in {"index1", "index2", "part002", "part003"}

\* where runSpeedtest is called: inside the try of the pass (before the
\* finally), after the pass has returned, or not at all
SpeedtestPlace(v) ==
    CASE v = "index1" -> "none"
      [] v = "index2" -> "afterPass"
      [] OTHER -> "inPass"

\* the finally block:
\*   "termCheckKill" SIGTERM, 1 s, SIGKILL if kill(pid, 0) succeeds
\*   "termKill"      SIGTERM, 1 s, SIGKILL
\*   "kill"          SIGKILL
\*   "term"          kill() (SIGTERM), no wait
TeardownKind(v) ==
    CASE v \in {"index1", "index2", "part002"} -> "termCheckKill"
      [] v = "part003" -> "termKill"
      [] v = "part000" -> "kill"
      [] OTHER -> "term"

\* ---------------------------------------------------------- values
Reason(kind, k) == [kind |-> kind, k |-> k]
NoReason == Reason("none", 0)

\* an error field is populated when it holds a non-empty string
Populated(r) == r.kind \notin {"none", "undefined"}

NoOutbound == [tls |-> FALSE, insecure |-> FALSE]

\* the providers of the location service's answer
Providers == {"dbip", "ip2location", "ipinfo", "maxmind"}

\* the location fields taken from a provider
Fields == {"country", "city"}

\* the values a field of a provider can hold ("": empty or missing)
Places == {"", "US", "DE"}

\* a provider of the answer: missing altogether, or an object with fields
ProviderData ==
    {d \in [present : BOOLEAN, country : Places, city : Places] :
        ~d.present => (d.country = "" /\ d.city = "")}

\* upsert(identity, ...) on an identity not seen before: a ProxyEntry with
\* no checks, whose status is pending
NewEntry == [checks |-> <<>>, derivedStatus |-> "pending"]

\* no answer looked at yet
NoIpData == [ip |-> FALSE, providers |-> [n \in Providers |->
                 [present |-> FALSE, country |-> "", city |-> ""]]]

\* the location fields as createErrorResult / baseResult have them
NoGeo == [country |-> "N/A", city |-> "N/A"]

Init ==
    /\ variant \in Variants
    /\ links \in UNION {[1..n -> LinkKinds] : n \in 0..MaxLinks}
    /\ twin = FALSE
    /\ i = 0
    /\ pc = "readLinks"
    /\ results = <<>>
    /\ report = [written |-> FALSE, outcomes |-> <<>>, writes |-> 0]
    /\ outbound = NoOutbound
    /\ allowInsecure = FALSE
    /\ passes = <<>>
    /\ procs = <<>>
    /\ cur = 0
    /\ handle = FALSE
    /\ started = FALSE
    /\ toArmed = FALSE
    /\ graceArmed = FALSE
    /\ settle = {}
    /\ ready = "no"
    /\ readyAt = -1
    /\ graceSaw = "none"
    /\ now = 0
    /\ warm = "none"
    /\ attempts = <<>>
    /\ chosen = 0
    /\ verdict = "none"
    /\ flight = 0
    /\ sent = 0
    /\ speed = "none"
    /\ ipData = NoIpData
    /\ geo = NoGeo
    /\ entry = NewEntry
    /\ loaded = <<>>
    /\ log = <<>>
    /\ today = 0
    /\ selected = "unasked"

taskVars == <<outbound, allowInsecure, passes>>
startVars == <<started, toArmed, graceArmed, settle, ready, readyAt, graceSaw,
               now>>
probeVars == <<warm, attempts, chosen, verdict, flight, sent>>
geoVars == <<ipData, geo>>
regVars == <<entry, loaded, log, today, selected>>

\* ------------------------------------------------- the voting (pure)
\* [request1, request2, ...].filter(r => r.success).length
successCount(a) == Cardinality({k \in DOMAIN a : a[k]})

\* a tie-break that is also asked for when both probes fail
needThird_onFailure(a) == successCount(a) <= 1

\* if (successCount === 1): the two probes disagree, a third is needed
needThird(a) == successCount(a) = 1

\* a vote that lets one success pass
isWorking_anySuccess(a) == successCount(a) >= 1

\* const isWorking = successCount >= 2
isWorking(a) == successCount(a) >= 2

\* [request1, request2, request3].find(r => r.success): the FIRST success
firstSuccess(a) == CHOOSE k \in DOMAIN a : a[k] /\ \A j \in DOMAIN a : a[j] => k <= j

\* [test3, test2, test1].find(t => t.success): the LAST success
lastSuccess(a) == CHOOSE k \in DOMAIN a : a[k] /\ \A j \in DOMAIN a : a[j] => j <= k

\* [test3, test2, test1].find(t => !t.success): the LAST failure
lastFailure(a) == CHOOSE k \in DOMAIN a : ~a[k] /\ \A j \in DOMAIN a : ~a[j] => j <= k

\* a finalResult that keeps the tie-break probe itself
finalResult_third(a) ==
    IF Len(a) = 3 THEN 3 ELSE IF a[2] THEN 2 ELSE 1

\* index.js, part_002, part_003: the probe kept as finalResult
\*   3 probes: [r1, r2, r3].find(r => r.success) || r3
\*   2 probes: request2.success ? request2 : request1
finalResult(a) ==
    IF Len(a) = 3
    THEN IF successCount(a) > 0 THEN firstSuccess(a) ELSE 3
    ELSE IF a[2] THEN 2 ELSE 1

\* part_000: the test whose data (working) or error (not working) is kept
\*   both succeed: test2; both fail: test2.error;
\*   3 tests: the last success when >= 2 succeed, else the last failure
finalTest(a) ==
    IF Len(a) = 2 THEN 2
    ELSE IF successCount(a) >= 2 THEN lastSuccess(a) ELSE lastFailure(a)

\* part_001 performConnectionTest: lastSuccessfulData when working; else the
\* error of [res1, res2, attempts[2]].reverse().find(r => r && r.error):
\* attempts[2] is a boolean, so only res2 and res1 are candidates
lastSuccessfulOrError(a) ==
    IF successCount(a) >= 2 THEN lastSuccess(a)
    ELSE IF ~a[2] THEN 2 ELSE 1

\* the attempt index of the probe a pass surfaces
chosenProbe(v, a) ==
    CASE v = "part000" -> finalTest(a)
      [] v = "part001" -> lastSuccessfulOrError(a)
      [] OTHER -> finalResult(a)

\* --------------------------------------------------- descriptors
\* createSingboxConfig / applyInsecureIfNeeded: the outbound object after
\* the call (the object is mutated in place)
createSingboxConfig(v, ob, allow) ==
    IF (IF v = "part002" THEN ALLOW_INSECURE(v) ELSE allow) /\ ob.tls
    THEN [ob EXCEPT !.insecure = TRUE]
    ELSE ob

\* ------------------------------------------------------- outcomes
\* the result of one pass: testProxyWithSettings' return value
PassResult(allow, ok, err, ch, a) ==
    [allowInsecure |-> allow, success |-> ok, error |-> err, chosen |-> ch,
     attempts |-> a, insecure |-> outbound.insecure,
     \* what the pass used: a process was spawned, startSingbox returned
     \* it, and the makeProxyRequest calls made
     spawned |-> cur # 0, handed |-> handle, sent |-> sent]

\* error of the probe with attempt index k of a pass (undefined for a
\* successful probe)
probeError(a, k) == IF k \in DOMAIN a /\ ~a[k] THEN Reason("probe", k) ELSE NoReason

\* the error string of the outcome of a failed pass r
errorMessage(v, r) ==
    CASE v = "index1" ->
           \* testResult.error || testResult.result.error || 'Unknown test failure'
           IF Populated(r.error) THEN r.error
           ELSE IF Populated(probeError(r.attempts, r.chosen))
                THEN probeError(r.attempts, r.chosen)
                ELSE Reason("unknown", 0)
      [] v = "index2" ->
           \* createErrorResult(link, testResult.error, name)
           IF Populated(r.error) THEN r.error ELSE Reason("undefined", 0)
      [] v \in {"part002", "part003"} ->
           \* finalResult.error || 'Connection failed'
           IF Populated(r.error) THEN r.error
           ELSE IF Populated(probeError(r.attempts, r.chosen))
                THEN probeError(r.attempts, r.chosen)
                ELSE Reason("connfailed", 0)
      [] v = "part000" ->
           \* `... Last error: ${test2.error}` / `${lastError.error}`
           IF Populated(r.error) THEN r.error
           ELSE probeError(r.attempts, r.chosen)
      [] OTHER ->
           \* `IP test failed: ${lastError}`, lastError defaulting to
           \* "Multiple connection attempts failed"
           IF Populated(r.error) THEN r.error
           ELSE IF Populated(probeError(r.attempts, r.chosen))
                THEN probeError(r.attempts, r.chosen)
                ELSE Reason("multiple", 0)

\* the insecure field of an outcome: index.js writes it, the others do not
insecureField(v, b) ==
    IF v \in {"index1", "index2"} THEN (IF b THEN "true" ELSE "false") ELSE "absent"

\* an error outcome that tells which variant was tried last
createErrorResult_flagged(v, idx, err) ==
    [link |-> idx, status |-> "error", error |-> err,
     insecure |-> insecureField(v, allowInsecure), speed |-> "none"]

\* createErrorResult(link, error, name)
createErrorResult(v, idx, err) ==
    [link |-> idx, status |-> "error", error |-> err,
     insecure |-> insecureField(v, FALSE), speed |-> "none"]

\* an outcome whose status follows the throughput measurement
workingResult_downgraded(v, idx, r, sp) ==
    [link |-> idx, status |-> IF sp = "fail" THEN "error" ELSE "working",
     error |-> IF sp = "fail" THEN Reason("speedtest", 0) ELSE NoReason,
     insecure |-> insecureField(v, r.allowInsecure), speed |-> sp]

\* the object returned for a working endpoint
workingResult(v, idx, r, sp) ==
    [link |-> idx, status |-> "working",
     error |-> IF sp = "fail" /\ v \in {"part000", "part001"}
               THEN Reason("speedtest", 0) ELSE NoReason,
     insecure |-> insecureField(v, r.allowInsecure), speed |-> sp]

\* --------------------------------------------------------- main
\* main: links = await readLinks(); if (links.length === 0) return;
main_readLinks ==
    /\ pc = "readLinks"
    /\ pc' = IF Len(links) = 0 THEN "noLinks" ELSE "loop"
    /\ UNCHANGED <<regVars, geoVars, variant, links, twin, i, results, report, taskVars, procs, cur,
                   handle, startVars, probeVars, speed>>

\* the processes of earlier tasks and passes that have exited are gone from
\* the process table; those still running stay
Reap(ps) == SelectSeq(ps, LAMBDA p : p.alive)

\* main: for (let i = 0; i < links.length; i++) { await testProxy(links[i], i)
main_call ==
    /\ pc = "loop"
    /\ i < Len(links)
    /\ pc' = "convert"
    /\ passes' = <<>>
    /\ speed' = "none"
    /\ outbound' = NoOutbound
    /\ allowInsecure' = FALSE
    /\ procs' = Reap(procs)
    /\ UNCHANGED <<regVars, geoVars, variant, links, twin, i, results, report, cur, handle,
                   startVars, probeVars>>

\* main: await writeFile(filename, JSON.stringify(results, null, 2))
main_writeReport ==
    /\ pc = "loop"
    /\ i = Len(links)
    /\ report' = [written |-> TRUE, outcomes |-> results,
                  writes |-> report.writes + 1]
    /\ pc' = "done"
    /\ UNCHANGED <<regVars, geoVars, variant, links, twin, i, results, taskVars, procs, cur,
                   handle, startVars, probeVars, speed>>

\* a loop that moves on without the outcome of the task
Return_unrecorded(out) ==
    /\ results' = results
    /\ i' = i + 1
    /\ pc' = "loop"

\* testProxy returns `out`; main: results.push(result); i++
Return(out) ==
    /\ results' = Append(results, out)
    /\ i' = i + 1
    /\ pc' = "loop"

\* ----------------------------------------------------- testProxy
NewProc(v, idx) ==
    [task |-> idx, port |-> ListenPort(v, idx), alive |-> TRUE,
     termSent |-> FALSE, killSent |-> FALSE, stopped |-> FALSE,
     \* startSingbox: a fatal marker was read, the startup timeout fired,
     \* the promise resolved with this process (and how long after it was
     \* made ready)
     fatal |-> FALSE, timedOut |-> FALSE, handed |-> FALSE, waited |-> -1,
     \* the finally block: the process had exited when it began, SIGTERM was
     \* requested, the 1 s wait was made, the process ran at its end, and
     \* SIGKILL reached it
     exitedBefore |-> FALSE, asked |-> FALSE, graceWait |-> FALSE,
     ranAfterWait |-> FALSE, forced |-> FALSE]

\* the processes the task of link index idx has spawned
TaskProcs(idx) == {p \in DOMAIN procs : procs[p].task = idx}

\* testResult = await testProxyWithSettings(link, index, outbound, true)
\* overwrites the strict pass's result: that it ran, with which descriptor,
\* and that it failed is all that is left of it
Overwritten(r) ==
    [r EXCEPT !.error = NoReason, !.chosen = 0, !.attempts = <<>>]

\* the pass has returned r to testProxy, which runs the relaxed pass, goes on
\* to the speed test, or returns the outcome to main
\*   if (!testResult.success && outbound.tls && outbound.tls.enabled)
\*       testResult = await testProxyWithSettings(link, index, outbound, true)
EndPass(r) ==
    /\ passes' = IF TwoPass(variant) /\ Len(passes) = 0 /\ ~r.success /\ outbound.tls
                  THEN <<Overwritten(r)>>
                  ELSE Append(passes, r)
    /\ cur' = 0
    /\ handle' = FALSE
    /\ warm' = "none"
    /\ attempts' = <<>>
    /\ chosen' = 0
    /\ verdict' = "none"
    /\ flight' = 0
    /\ sent' = 0
    /\ IF TwoPass(variant) /\ Len(passes) = 0 /\ ~r.success /\ outbound.tls
       THEN /\ allowInsecure' = TRUE
            /\ pc' = "write"
            /\ UNCHANGED <<results, i>>
       ELSE IF r.success /\ SpeedtestPlace(variant) = "afterPass"
       THEN /\ pc' = "speedOut"
            /\ UNCHANGED <<allowInsecure, results, i>>
       ELSE /\ Return(IF r.success
                      THEN workingResult(variant, i, r, speed)
                      ELSE createErrorResult(variant, i, errorMessage(variant, r)))
            /\ UNCHANGED allowInsecure

\* a conversion that lets every link through
convertible_any(kind) == TRUE

\* convertToOutbounds(link) neither throws nor returns an empty list
convertible(kind) == kind # "bad"

\* outbounds[0] of convertToOutbounds(link) for a convertible link: the
\* descriptor as the converter made it, certificate validation on
convertToOutbounds(kind) == [tls |-> kind = "tls", insecure |-> FALSE]

\* testProxy: convertToOutbounds(link) in try/catch (index.js, part_002,
\* part_003); createSingboxConfig returning null (part_000);
\* generateSingboxConfig returning false (part_001)
testProxy_convert ==
    /\ pc = "convert"
    /\ IF ~convertible(links[i + 1])
       THEN /\ Return(createErrorResult(variant, i, Reason("conversion", 0)))
            /\ UNCHANGED <<outbound, allowInsecure>>
       ELSE /\ outbound' = convertToOutbounds(links[i + 1])
            /\ allowInsecure' = FALSE
            /\ pc' = "write"
            /\ UNCHANGED <<results, i>>
    /\ UNCHANGED <<regVars, geoVars, variant, links, twin, report, passes, procs, cur, handle,
                   startVars, probeVars, speed>>

\* what a failed config write is reported as: part_001 writes the file
\* inside generateSingboxConfig, whose failures all read alike
writeFailureReason(v) ==
    IF v = "part001" THEN Reason("conversion", 0) ELSE Reason("write", 0)

\* const config = createSingboxConfig(outbound, allowInsecure);
\* await writeFile(configFile, ...) -- caught, except in part_000 where the
\* write stands outside every try and the exception reaches main's catch
writeConfig ==
    \E ok \in BOOLEAN :
        /\ pc = "write"
        /\ outbound' = createSingboxConfig(variant, outbound, allowInsecure)
        /\ IF ok
           THEN /\ pc' = "spawn"
                /\ UNCHANGED <<results, i, allowInsecure, passes, cur, handle,
                               probeVars>>
           ELSE IF variant = "part000"
           THEN /\ pc' = "aborted"
                /\ UNCHANGED <<results, i, allowInsecure, passes, cur, handle,
                               probeVars>>
           ELSE EndPass(PassResult(allowInsecure, FALSE,
                                   writeFailureReason(variant), 0, <<>>))
        /\ procs' = Reap(procs)
        /\ UNCHANGED <<regVars, geoVars, variant, links, twin, report, startVars, speed>>

\* spawn('sing-box', ['run', '-c', configPath]) and the timers startSingbox
\* arms; a failed spawn is the child's 'error' event, which startSingbox
\* turns into a rejection and which has no listener in part_000/part_001
spawnSingbox ==
    \E ok \in BOOLEAN :
        /\ pc = "spawn"
        /\ IF ok
           THEN /\ procs' = Append(procs, NewProc(variant, i))
                /\ cur' = Len(procs) + 1
                /\ handle' = (StartKind(variant) = "sleep")
                /\ started' = FALSE
                /\ toArmed' = (StartKind(variant) # "sleep")
                /\ graceArmed' = (StartKind(variant) \in {"detect", "detect2"})
                /\ settle' = IF StartKind(variant) = "sleep"
                             THEN {STARTUP_DELAY(variant)} ELSE {}
                /\ ready' = "no"
                /\ readyAt' = -1
                /\ graceSaw' = "none"
                /\ now' = 0
                /\ pc' = "start"
                /\ UNCHANGED <<results, i, allowInsecure, passes, probeVars>>
           ELSE IF StartKind(variant) = "sleep"
           THEN /\ pc' = "crashed"
                /\ UNCHANGED <<results, i, allowInsecure, passes, procs, cur,
                               handle, startVars, probeVars>>
           ELSE /\ EndPass(PassResult(allowInsecure, FALSE,
                                      Reason("startupSpawn", 0), 0, <<>>))
                /\ UNCHANGED <<procs, startVars>>
        /\ UNCHANGED <<regVars, geoVars, variant, links, twin, report, outbound, speed>>

\* ---------------------------------------------------- startSingbox
\* kill('SIGKILL') on process p of the table ps: the process, if still
\* running, is gone; ChildProcess.kill sends nothing to one that has exited
KillIn(ps, p) ==
    IF ps[p].alive
    THEN [ps EXCEPT ![p].alive = FALSE, ![p].killSent = TRUE]
    ELSE ps

\* a SIGTERM that is sent without regard to the process having exited
TermIn_blind(ps, p) == [ps EXCEPT ![p].termSent = TRUE]

\* kill('SIGTERM') / kill() on process p of the table ps: delivered if still
\* running
TermIn(ps, p) ==
    IF ps[p].alive THEN [ps EXCEPT ![p].termSent = TRUE] ELSE ps

\* singbox.kill('SIGKILL')
Kill(p) == KillIn(procs, p)

\* singboxProcess.kill('SIGTERM') / kill()
Term(p) == TermIn(procs, p)

\* the promise has settled: the timers left behind no longer change anything
ClearStart ==
    /\ started' = FALSE
    /\ toArmed' = FALSE
    /\ graceArmed' = FALSE
    /\ settle' = {}
    /\ ready' = "no"
    /\ readyAt' = -1
    /\ graceSaw' = "none"
    /\ now' = 0

\* a rejection that is swallowed: the pass goes on to its requests
Reject_swallowed(why) ==
    /\ ClearStart
    /\ pc' = IF HasWarmup(variant) THEN "warmup" ELSE "probe1"
    /\ UNCHANGED <<passes, cur, handle, probeVars, allowInsecure, results, i>>

\* reject(...) reaches the catch around `await startSingbox(configFile)`:
\* return { success: false, error: 'Sing-box startup failed: ' + ... }
Reject(why) ==
    /\ EndPass(PassResult(allowInsecure, FALSE, Reason(why, 0), 0, <<>>))
    /\ ClearStart

\* a resolve that does not wait: resolve(singbox) on the spot
ArmResolve_atOnce(pending, d) == {0}

\* setTimeout(() => resolve(singbox), STARTUP_DELAY) with deadline d: while an
\* earlier resolve timer is pending, the new one is due no sooner and will
\* find the promise settled
ArmResolve(pending, d) == IF pending = {} THEN {d} ELSE pending

\* checkStarted: a chunk with a readiness marker arrives (stdout; stderr too
\* except in part_003); clearTimeout(startupTimeout) and the resolve timer
checkStarted ==
    /\ pc = "start"
    /\ StartKind(variant) \in {"detect", "detect2", "simple"}
    /\ procs[cur].alive
    /\ StartKind(variant) = "detect" => ~started
    /\ started' = (StartKind(variant) = "detect")
    /\ toArmed' = FALSE
    /\ settle' = ArmResolve(settle, now + STARTUP_DELAY(variant))
    /\ ready' = IF ready = "no" THEN "marker" ELSE ready
    /\ readyAt' = IF ready = "no" THEN now ELSE readyAt
    /\ UNCHANGED <<regVars, geoVars, variant, links, twin, i, pc, results, report, taskVars, procs,
                   cur, handle, graceArmed, graceSaw, now, probeVars, speed>>

\* stderr 'data' with 'FATAL' / 'panic' (index.js, part_002: kill and
\* reject) or with 'ERROR' (part_003: reject only)
stderr_fatal ==
    /\ pc = "start"
    /\ StartKind(variant) \in {"detect", "detect2", "simple"}
    /\ procs[cur].alive
    /\ procs' = [(IF StartKind(variant) = "simple" THEN procs ELSE Kill(cur))
                   EXCEPT ![cur].fatal = TRUE]
    /\ Reject("startupFatal")
    /\ UNCHANGED <<regVars, geoVars, variant, links, twin, report, outbound, speed>>

\* the child ends by itself with an exit code (0 or not) or by a signal
\* (code === null); singbox.on('exit') where there is one
child_exit ==
    \E code \in {"zero", "nonzero", "signal"} :
        /\ pc = "start"
        /\ procs[cur].alive
        /\ procs' = [procs EXCEPT ![cur].alive = FALSE]
        /\ IF /\ StartKind(variant) \in {"detect", "detect2"}
              /\ code = "nonzero"
              /\ ~started
           THEN Reject("startupExit")
           ELSE /\ toArmed' = IF StartKind(variant) \in {"detect", "detect2"}
                              THEN FALSE ELSE toArmed
                /\ UNCHANGED <<pc, results, i, allowInsecure, passes, cur,
                               handle, started, graceArmed, settle, ready,
                               readyAt, graceSaw, now, probeVars>>
        /\ UNCHANGED <<regVars, geoVars, variant, links, twin, report, outbound, speed>>

\* the startupTimeout timer fires: kill (not in part_003) and reject
startupTimeout_fires ==
    /\ pc = "start"
    /\ toArmed
    /\ now >= StartupTimeout(variant)
    /\ procs' = [(IF StartKind(variant) = "simple" THEN procs ELSE Kill(cur))
                   EXCEPT ![cur].timedOut = TRUE]
    /\ Reject("startupTimeout")
    /\ UNCHANGED <<regVars, geoVars, variant, links, twin, report, outbound, speed>>

\* a 3000 ms check that never looks at the process
graceLooks_never(v, st) == FALSE

\* the 3000 ms check looks at the process at all: index.js only
\* if (!started && startupTimeout), part_002 always
graceLooks(v, st) == StartKind(v) = "detect" => ~st

\* a check that arms the resolve timer without process.kill(pid, 0)
gracePromotes_unchecked(v, isAlive, st) == graceLooks(v, st)

\* the check arms the resolve timer: process.kill(singbox.pid, 0) did not
\* throw, i.e. the process is running
gracePromotes(v, isAlive, st) == graceLooks(v, st) /\ isAlive

\* the 3000 ms timer: if (!started && startupTimeout) { process.kill(pid, 0);
\* started = true; clearTimeout; setTimeout(resolve, STARTUP_DELAY) }
graceCheck ==
    /\ pc = "start"
    /\ graceArmed
    /\ now >= GraceDelay
    /\ graceArmed' = FALSE
    /\ graceSaw' = IF graceLooks(variant, started)
                   THEN (IF procs[cur].alive THEN "alive" ELSE "dead")
                   ELSE "none"
    /\ IF gracePromotes(variant, procs[cur].alive, started)
       THEN /\ started' = (StartKind(variant) = "detect")
            /\ toArmed' = FALSE
            /\ settle' = ArmResolve(settle, now + STARTUP_DELAY(variant))
            /\ ready' = IF ready = "no" THEN "grace" ELSE ready
            /\ readyAt' = IF ready = "no" THEN now ELSE readyAt
       ELSE UNCHANGED <<started, toArmed, settle, ready, readyAt>>
    /\ UNCHANGED <<regVars, geoVars, variant, links, twin, i, pc, results, report, taskVars, procs,
                   cur, handle, now, probeVars, speed>>

\* setTimeout(() => resolve(singbox), STARTUP_DELAY) fires, or the fixed
\* delay of part_000/part_001 is over: the task goes on to its first request
settle_fires ==
    /\ pc = "start"
    /\ \E d \in settle : now >= d
    /\ handle' = TRUE
    /\ procs' = [procs EXCEPT ![cur].handed = TRUE,
                              ![cur].waited = IF readyAt >= 0
                                              THEN now - readyAt ELSE -1]
    /\ pc' = IF HasWarmup(variant) THEN "warmup" ELSE "probe1"
    /\ ClearStart
    /\ UNCHANGED <<regVars, geoVars, variant, links, twin, i, results, report, taskVars, cur,
                   probeVars, speed>>

\* one second passes while the task waits for the process; a timer that is
\* due fires first
tick ==
    /\ pc = "start"
    /\ now < MaxClock
    /\ ~(toArmed /\ now >= StartupTimeout(variant))
    /\ ~(graceArmed /\ now >= GraceDelay)
    /\ \A d \in settle : now < d
    /\ now' = now + 1
    /\ UNCHANGED <<regVars, geoVars, variant, links, twin, i, pc, results, report, taskVars, procs,
                   cur, handle, started, toArmed, graceArmed, settle, ready,
                   readyAt, graceSaw, probeVars, speed>>

\* ------------------------------------------------------- the probes
\* a request through 127.0.0.1:<port> can only succeed while some process
\* listens there
PortServed(port) == \E p \in DOMAIN procs : procs[p].alive /\ procs[p].port = port

ProbeOutcomes == {ok \in BOOLEAN : ok => PortServed(ListenPort(variant, i))}

\* once the last counted probe is in: isWorking, finalResult, and on to the
\* speed test (inside the try) or to the finally block
Verdict(a) ==
    /\ verdict' = IF isWorking(a) THEN "working" ELSE "notworking"
    /\ chosen' = chosenProbe(variant, a)
    /\ pc' = IF isWorking(a) /\ SpeedtestPlace(variant) = "inPass"
             THEN "speedIn" ELSE "finally"

\* two requests sent off together, as Promise.all would
issued_pair(n) == n + 2

\* makeProxyRequest() is called: one more request is under way
issued(n) == n + 1

\* the task calls makeProxyRequest() for the request it has come to and is
\* suspended at the await
issueRequest ==
    /\ pc \in {"warmup", "probe1", "probe2", "probe3"}
    /\ flight = 0
    /\ flight' = issued(flight)
    /\ sent' = sent + 1
    /\ UNCHANGED <<regVars, geoVars, variant, links, twin, i, pc, results, report, taskVars, procs,
                   cur, handle, startVars, warm, attempts, chosen, verdict,
                   speed>>

\* await makeProxyRequest(true): the warm-up returns, its result dropped
warmupRequest ==
    \E ok \in ProbeOutcomes :
        /\ pc = "warmup"
        /\ flight > 0
        /\ flight' = flight - 1
        /\ warm' = IF ok THEN "ok" ELSE "fail"
        /\ pc' = "probe1"
        /\ UNCHANGED <<regVars, geoVars, variant, links, twin, i, results, report, taskVars, procs,
                       cur, handle, startVars, attempts, chosen, verdict,
                       sent, speed>>

\* const request1 = await makeProxyRequest(); part_000 calls its first
\* counted test the warm-up
request1 ==
    \E ok \in ProbeOutcomes :
        /\ pc = "probe1"
        /\ flight > 0
        /\ flight' = flight - 1
        /\ attempts' = <<ok>>
        /\ warm' = IF variant = "part000"
                   THEN (IF ok THEN "ok" ELSE "fail") ELSE warm
        /\ pc' = "probe2"
        /\ UNCHANGED <<regVars, geoVars, variant, links, twin, i, results, report, taskVars, procs,
                       cur, handle, startVars, chosen, verdict, sent,
                       speed>>

\* const request2 = await makeProxyRequest(); then the vote on two results
request2 ==
    \E ok \in ProbeOutcomes :
        /\ pc = "probe2"
        /\ flight > 0
        /\ flight' = flight - 1
        /\ attempts' = Append(attempts, ok)
        /\ IF needThird(Append(attempts, ok))
           THEN /\ pc' = "probe3"
                /\ UNCHANGED <<chosen, verdict>>
           ELSE Verdict(Append(attempts, ok))
        /\ UNCHANGED <<regVars, geoVars, variant, links, twin, i, results, report, taskVars, procs,
                       cur, handle, startVars, warm, sent, speed>>

\* const request3 = await makeProxyRequest(): the tie-break
request3 ==
    \E ok \in ProbeOutcomes :
        /\ pc = "probe3"
        /\ flight > 0
        /\ flight' = flight - 1
        /\ attempts' = Append(attempts, ok)
        /\ Verdict(Append(attempts, ok))
        /\ UNCHANGED <<regVars, geoVars, variant, links, twin, i, results, report, taskVars, procs,
                       cur, handle, startVars, warm, sent, speed>>

\* runSpeedtest() / performSpeedTest(port) inside the try of the pass
\* (part_000 .. part_003): never throws, a failure is a reading of 'N/A'
speedtest_inPass ==
    \E ok \in ProbeOutcomes :
        /\ pc = "speedIn"
        /\ speed' = IF ok THEN "ok" ELSE "fail"
        /\ pc' = "finally"
        /\ UNCHANGED <<regVars, geoVars, variant, links, twin, i, results, report, taskVars, procs,
                       cur, handle, startVars, probeVars>>

\* index.js (second generation) testProxy: if (testResult.success) {
\* const speedtest = await runSpeedtest(); ... return {status: 'working'...
speedtest_afterPass ==
    \E ok \in ProbeOutcomes :
        /\ pc = "speedOut"
        /\ speed' = IF ok THEN "ok" ELSE "fail"
        /\ Return(workingResult(variant, i, passes[Len(passes)],
                                IF ok THEN "ok" ELSE "fail"))
        /\ UNCHANGED <<regVars, geoVars, variant, links, twin, report, taskVars, procs, cur, handle,
                       startVars, probeVars>>

\* ------------------------------------------------------ the teardown
\* what the pass returns once the finally block is through
ProbedResult ==
    PassResult(allowInsecure, verdict = "working", NoReason, chosen, attempts)

Stop(p) ==
    [procs EXCEPT ![p].stopped = TRUE, ![p].exitedBefore = ~procs[p].alive]

\* SIGKILL sent by the finally block to process p of ps; `forced` tells
\* whether it reached a running process
ForceIn(ps, p) == [KillIn(ps, p) EXCEPT ![p].forced = ps[p].alive]

\* finally { singboxProcess.kill('SIGTERM'); await 1 s ... } -- part_000
\* sends SIGKILL and part_001 SIGTERM, and both return at once
finally_signal ==
    /\ pc = "finally"
    /\ LET pr == Stop(cur) IN
       CASE TeardownKind(variant) = "kill" ->
              /\ procs' = ForceIn(pr, cur)
              /\ EndPass(ProbedResult)
         [] TeardownKind(variant) = "term" ->
              /\ procs' = [TermIn(pr, cur) EXCEPT ![cur].asked = TRUE]
              /\ EndPass(ProbedResult)
         [] OTHER ->
              /\ procs' = [TermIn(pr, cur) EXCEPT ![cur].asked = TRUE]
              /\ pc' = "finallyWait"
              /\ UNCHANGED <<results, i, allowInsecure, passes, cur, handle,
                             probeVars>>
    /\ UNCHANGED <<regVars, geoVars, variant, links, twin, report, outbound, startVars, speed>>

\* after the second: process.kill(pid, 0) and SIGKILL if it is still there
\* (part_003 sends SIGKILL without looking); then the pass returns
finally_kill ==
    /\ pc = "finallyWait"
    /\ procs' = [ForceIn(procs, cur) EXCEPT
                   ![cur].graceWait = TRUE,
                   ![cur].ranAfterWait = procs[cur].alive]
    /\ EndPass(ProbedResult)
    /\ UNCHANGED <<regVars, geoVars, variant, links, twin, report, outbound, startVars, speed>>

\* ------------------------------------------------- the environment
\* a process that is not being waited for by startSingbox ends: by itself,
\* or on the SIGTERM it was sent
proc_exit ==
    \E p \in DOMAIN procs :
        /\ procs[p].alive
        /\ ~(pc = "start" /\ p = cur)
        /\ procs' = [procs EXCEPT ![p].alive = FALSE]
        /\ UNCHANGED <<regVars, geoVars, variant, links, twin, i, pc, results, report, taskVars, cur,
                       handle, startVars, probeVars, speed>>

\* the stderr listener of startSingbox outlives the promise: a 'FATAL' or
\* 'panic' line during the requests still runs singbox.kill('SIGKILL')
stderr_fatal_late ==
    /\ pc \in {"warmup", "probe1", "probe2", "probe3", "speedIn", "finally",
               "finallyWait"}
    /\ StartKind(variant) \in {"detect", "detect2"}
    /\ procs[cur].alive
    /\ procs' = Kill(cur)
    /\ UNCHANGED <<regVars, geoVars, variant, links, twin, i, pc, results, report, taskVars, cur,
                   handle, startVars, probeVars, speed>>

Next ==
    \/ main_readLinks
    \/ main_call
    \/ main_writeReport
    \/ testProxy_convert
    \/ writeConfig
    \/ spawnSingbox
    \/ checkStarted
    \/ stderr_fatal
    \/ child_exit
    \/ startupTimeout_fires
    \/ graceCheck
    \/ settle_fires
    \/ tick
    \/ issueRequest
    \/ warmupRequest
    \/ request1
    \/ request2
    \/ request3
    \/ speedtest_inPass
    \/ speedtest_afterPass
    \/ finally_signal
    \/ finally_kill
    \/ proc_exit
    \/ stderr_fatal_late

Spec == Init /\ [][Next]_vars

\* ------------------------------------------- links of one endpoint
\* a run over two lines of links.txt that differ only in the text after '#'
\* (the display name): the same endpoint, so the same conversion
TwinInit ==
    /\ variant \in Variants
    /\ links \in {<<k, k>> : k \in {"plain", "tls"}}
    /\ twin = TRUE
    /\ i = 0
    /\ pc = "readLinks"
    /\ results = <<>>
    /\ report = [written |-> FALSE, outcomes |-> <<>>, writes |-> 0]
    /\ outbound = NoOutbound
    /\ allowInsecure = FALSE
    /\ passes = <<>>
    /\ procs = <<>>
    /\ cur = 0
    /\ handle = FALSE
    /\ started = FALSE
    /\ toArmed = FALSE
    /\ graceArmed = FALSE
    /\ settle = {}
    /\ ready = "no"
    /\ readyAt = -1
    /\ graceSaw = "none"
    /\ now = 0
    /\ warm = "none"
    /\ attempts = <<>>
    /\ chosen = 0
    /\ verdict = "none"
    /\ flight = 0
    /\ sent = 0
    /\ speed = "none"
    /\ ipData = NoIpData
    /\ geo = NoGeo
    /\ entry = NewEntry
    /\ loaded = <<>>
    /\ log = <<>>
    /\ today = 0
    /\ selected = "unasked"

TwinSpec == TwinInit /\ [][Next]_vars

\* ------------------------------------------------- the location fields
\* the providers a generation consults, in the order of its || chain
Priority(v) ==
    CASE v = "part000" -> <<"ipinfo", "dbip", "ip2location">>
      [] v = "part001" -> <<"ipinfo", "dbip">>
      [] OTHER -> <<"dbip", "ip2location", "ipinfo", "maxmind">>

\* 'N/A' for an empty value: x || 'N/A'
orNA(x) == IF x = "" THEN "N/A" ELSE x

\* providers.dbip?.country || providers.ip2location?.country || ... || 'N/A':
\* the value of field f of the first provider of order whose value is not
\* empty
fieldChain(prov, order, f) ==
    IF \E k \in DOMAIN order : prov[order[k]][f] # ""
    THEN prov[order[CHOOSE k \in DOMAIN order :
                        /\ prov[order[k]][f] # ""
                        /\ \A j \in 1..(k - 1) : prov[order[j]][f] = ""]][f]
    ELSE "N/A"

\* providers?.ipinfo || providers?.dbip || ... || {}: the first provider
\* object of order that is there, and its field f (|| 'N/A')
objectChain(prov, order, f) ==
    IF \E k \in DOMAIN order : prov[order[k]].present
    THEN orNA(prov[order[CHOOSE k \in DOMAIN order :
                             /\ prov[order[k]].present
                             /\ \A j \in 1..(k - 1) : ~prov[order[j]].present]][f])
    ELSE "N/A"

\* the value the outcome gets for field f from the answer d
locate(v, d, f) ==
    CASE v = "part000" ->
           \* if (finalIpData) { provider = ...; provider.country || 'N/A' }
           objectChain(d.providers, Priority(v), f)
      [] v = "part001" ->
           \* parseLocationData: if (!data || !data.ip) return {}
           IF d.ip THEN objectChain(d.providers, Priority(v), f) ELSE "N/A"
      [] OTHER -> fieldChain(d.providers, Priority(v), f)

\* testProxy, working branch: the location fields of the outcome
testProxy_locate ==
    /\ pc = "locate"
    /\ geo' = [f \in Fields |-> locate(variant, ipData, f)]
    /\ pc' = "located"
    /\ UNCHANGED <<regVars, ipData, variant, links, twin, i, results, report, taskVars,
                   procs, cur, handle, startVars, probeVars, speed>>

\* a task that has a probe's answer in hand and is about to build the
\* 'working' outcome from it
GeoInit ==
    /\ variant \in Variants
    /\ ipData \in [ip : BOOLEAN, providers : [Providers -> ProviderData]]
    /\ geo = NoGeo
    /\ entry = NewEntry
    /\ loaded = <<>>
    /\ log = <<>>
    /\ today = 0
    /\ selected = "unasked"
    /\ pc = "locate"
    /\ links = <<"plain">>
    /\ twin = FALSE
    /\ i = 0
    /\ results = <<>>
    /\ report = [written |-> FALSE, outcomes |-> <<>>, writes |-> 0]
    /\ outbound = convertToOutbounds("plain")
    /\ allowInsecure = FALSE
    /\ passes = <<>>
    /\ procs = <<>>
    /\ cur = 0
    /\ handle = FALSE
    /\ started = FALSE
    /\ toArmed = FALSE
    /\ graceArmed = FALSE
    /\ settle = {}
    /\ ready = "no"
    /\ readyAt = -1
    /\ graceSaw = "none"
    /\ now = 0
    /\ warm = "none"
    /\ attempts = <<>>
    /\ chosen = 0
    /\ verdict = "working"
    /\ flight = 0
    /\ sent = 0
    /\ speed = "none"

GeoNext == testProxy_locate

GeoSpec == GeoInit /\ [][GeoNext]_vars

\* ------------------------------------- the registry and the scheduler
\* (described by the design; time is counted in days)
DAY == 1
WEEK == 7
MONTH == 30

\* CheckEntry: what the scheduler and the status look at
CheckEntry(t, ok) == [timestamp |-> t, success |-> ok]

\* the consecutive-failure streak: scan checks from the most recent entry
\* backward, counting while success is false
RECURSIVE streak(_)
streak(checks) ==
    IF checks = <<>> THEN 0
    ELSE IF checks[Len(checks)].success THEN 0
    ELSE 1 + streak(SubSeq(checks, 1, Len(checks) - 1))

\* an interval table that ends at one week
interval_weekly(n) == IF n >= 7 THEN WEEK ELSE DAY

\* the interval a streak asks for: 0 and 1-6: 1 day; 7-29: 1 week;
\* 30 and more: 1 month
interval(n) ==
    IF n >= 30 THEN MONTH ELSE IF n >= 7 THEN WEEK ELSE DAY

\* isDue(entry, now)
isDue(e, t) ==
    IF e.checks = <<>> THEN TRUE
    ELSE t - e.checks[Len(e.checks)].timestamp >= interval(streak(e.checks))

\* a status that is only ever set by the first check
derive_first(checks) ==
    IF checks = <<>> THEN "pending"
    ELSE IF checks[1].success THEN "working" ELSE "error"

\* derivedStatus: pending before any check, else mirroring the latest entry
derive(checks) ==
    IF checks = <<>> THEN "pending"
    ELSE IF checks[Len(checks)].success THEN "working" ELSE "error"

\* an append that keeps only the latest entry of a run of failures
append_folding(e, c) ==
    LET cs == IF e.checks # <<>> /\ ~e.checks[Len(e.checks)].success
                 /\ ~c.success
              THEN Append(SubSeq(e.checks, 1, Len(e.checks) - 1), c)
              ELSE Append(e.checks, c)
    IN  [checks |-> cs, derivedStatus |-> derive(cs)]

\* append(identity, CheckEntry): atomic append and status recompute
append(e, c) ==
    [checks |-> Append(e.checks, c),
     derivedStatus |-> derive(Append(e.checks, c))]

\* a stored history: an optional success, then k failed checks, one a day
Stored(first, k) ==
    LET lead == IF first THEN <<CheckEntry(0, TRUE)>> ELSE <<>>
    IN  lead \o [j \in 1..k |-> CheckEntry(Len(lead) + j - 1, FALSE)]

\* the registry is loaded: the entry of one identity with its stored
\* history, or a new one; some days have passed since its last check
RegistryInit ==
    /\ \E first \in BOOLEAN, k \in 0..MaxStored, d \in 0..MaxDays :
           /\ loaded = Stored(first, k)
           /\ entry = [checks |-> Stored(first, k),
                       derivedStatus |-> derive(Stored(first, k))]
           /\ today = IF Stored(first, k) = <<>> THEN d
                      ELSE Len(Stored(first, k)) - 1 + d
    /\ log = <<>>
    /\ selected = "unasked"
    /\ variant \in {"index1"}
    /\ links = <<>>
    /\ twin = FALSE
    /\ i = 0
    /\ pc = "registry"
    /\ results = <<>>
    /\ report = [written |-> FALSE, outcomes |-> <<>>, writes |-> 0]
    /\ outbound = NoOutbound
    /\ allowInsecure = FALSE
    /\ passes = <<>>
    /\ procs = <<>>
    /\ cur = 0
    /\ handle = FALSE
    /\ started = FALSE
    /\ toArmed = FALSE
    /\ graceArmed = FALSE
    /\ settle = {}
    /\ ready = "no"
    /\ readyAt = -1
    /\ graceSaw = "none"
    /\ now = 0
    /\ warm = "none"
    /\ attempts = <<>>
    /\ chosen = 0
    /\ verdict = "none"
    /\ flight = 0
    /\ sent = 0
    /\ speed = "none"
    /\ ipData = NoIpData
    /\ geo = NoGeo

mainVars == <<variant, links, twin, i, pc, results, report, taskVars, procs,
              cur, handle, startVars, probeVars, speed, geoVars>>

\* a day passes between two runs
nextDay ==
    /\ selected = "unasked"
    /\ log # <<>>
    /\ today - log[1].timestamp < MaxWait
    /\ today' = today + 1
    /\ UNCHANGED <<entry, loaded, log, selected, mainVars>>

\* a run starts: the scheduler asks whether the entry is due
schedule ==
    /\ selected = "unasked"
    /\ selected' = IF isDue(entry, today) THEN "due" ELSE "notDue"
    /\ UNCHANGED <<entry, loaded, log, today, mainVars>>

\* the entry is due: it is verified and the outcome appended
verifyAndAppend ==
    \E ok \in BOOLEAN :
        /\ selected = "due"
        /\ Len(log) < MaxAppends
        /\ entry' = append(entry, CheckEntry(today, ok))
        /\ log' = Append(log, CheckEntry(today, ok))
        /\ selected' = "unasked"
        /\ UNCHANGED <<loaded, today, mainVars>>

\* the entry is not due (or the run does not get to it): it is left alone
skip ==
    /\ selected \in {"due", "notDue"}
    /\ selected' = "unasked"
    /\ UNCHANGED <<entry, loaded, log, today, mainVars>>

RegistryNext ==
    \/ nextDay
    \/ schedule
    \/ verifyAndAppend
    \/ skip

RegistrySpec == RegistryInit /\ [][RegistryNext]_vars

\* the exit status of the script once main has come to the position endpc:
\* main returns (no links; report written) or its rejection is only logged
\* by main().catch(console.error) / the catch in main, and node ends with
\* status 0; an 'error' event of the child without a listener ends node
\* with status 1
exitStatus(endpc) == IF endpc = "crashed" THEN 1 ELSE 0

\* ------------------------------------------------------------ claims
\* the run is over: main has returned, or the script has died
RunEnded == pc \in {"done", "noLinks", "aborted", "crashed"}

\* the task of link index i - 1 has just returned its outcome to main
TaskReturned == pc = "loop" /\ i > 0

\* number of successes among the counted probes, counted afresh
Successes(a) == Cardinality({k \in 1..Len(a) : a[k]})

\* a pass has rendered its verdict on the counted probes a
Voting(a, working) ==
    /\ Len(a) \in {2, 3}
    /\ working <=> Successes(a) >= 2

\* C1: in every verification pass the verdict is 'working' if and only if
\* at least 2 of the 2 or 3 counted probes succeeded (the warm-up request
\* is not among them).
C1_VotingClosure ==
    /\ verdict # "none" => Voting(attempts, verdict = "working")
    /\ \A k \in DOMAIN passes :
           passes[k].attempts # <<>> =>
               Voting(passes[k].attempts, passes[k].success)

C1_Witness ==
    /\ verdict = "working"
    /\ Len(attempts) = 3
    /\ Successes(attempts) = 2
    /\ HasWarmup(variant)
    /\ warm = "fail"

\* the latest successful probe of a, or the latest (failed) one if none
LatestPreferred(a) ==
    IF Successes(a) > 0
    THEN CHOOSE k \in 1..Len(a) : a[k] /\ \A j \in (k + 1)..Len(a) : ~a[j]
    ELSE Len(a)

\* C2: chosenProbe is the successful probe with the latest attempt index;
\* if no probe succeeded, it is the latest failed probe.
C2_ChosenRecency ==
    verdict # "none" => chosen = LatestPreferred(attempts)

\* C3: a third (tie-break) probe is issued if and only if probe 1 and
\* probe 2 disagree: with agreement the verdict follows 2 counted probes,
\* with disagreement no verdict exists before the third has completed.
C3_TieBreak ==
    /\ pc = "probe3" => Len(attempts) = 2 /\ attempts[1] # attempts[2]
    /\ Len(attempts) = 3 => attempts[1] # attempts[2]
    /\ (Len(attempts) = 2 /\ attempts[1] # attempts[2]) =>
           (pc = "probe3" /\ verdict = "none")
    /\ verdict # "none" =>
           /\ Len(attempts) >= 2
           /\ Len(attempts) = 2 <=> attempts[1] = attempts[2]

C3_Witness ==
    /\ verdict = "notworking"
    /\ Len(attempts) = 3
    /\ attempts[1] # attempts[2]

\* the descriptor the current pass runs with has certificate validation
\* relaxed
RelaxedNow ==
    /\ pc \in {"spawn", "start", "warmup", "probe1", "probe2", "probe3",
               "speedIn", "finally", "finallyWait"}
    /\ outbound.insecure

\* the generation has a certificate-relaxed descriptor at all (the others
\* never touch tls.insecure and have no pass the rule could speak of)
CanRelax(v) == TwoPass(v) \/ ALLOW_INSECURE(v)

\* C4: the certificate-relaxed pass is run if and only if the descriptor
\* declares tls.enabled and the strict pass yielded 'not working'; the
\* outcome's insecure flag is true exactly when the working verdict came
\* from the relaxed pass.
C4_RelaxedPassRule ==
    CanRelax(variant) =>
        /\ RelaxedNow =>
               /\ outbound.tls
               /\ Len(passes) = 1
               /\ ~passes[1].insecure
               /\ ~passes[1].success
        /\ (TaskReturned /\ passes # <<>>) =>
               /\ (outbound.tls /\ ~passes[1].success) => Len(passes) = 2
               /\ results[Len(results)].insecure = "true" <=>
                      /\ results[Len(results)].status = "working"
                      /\ passes[Len(passes)].insecure

\* C5: start always settles within its startup budget (the startup timeout
\* plus the settle delay), whatever the child does.
C5_StartSettles ==
    pc = "start" => now <= StartupTimeout(variant) + STARTUP_DELAY(variant)

\* C6: whatever way the task of one endpoint fails, every endpoint of the
\* run gets a recorded outcome and the run produces its report.
C6_Isolation ==
    (RunEnded /\ Len(links) > 0) =>
        /\ report.written
        /\ \A idx \in 0..(Len(links) - 1) :
               \E k \in DOMAIN results : results[k].link = idx

\* C7: a run over N links ends with a report of exactly N outcomes, the
\* i-th being the outcome of the i-th link.
C7_ReportPerLink ==
    (RunEnded /\ Len(links) > 0) =>
        /\ report.written
        /\ Len(report.outcomes) = Len(links)
        /\ \A k \in DOMAIN report.outcomes : report.outcomes[k].link = k - 1

\* C8: when a task returns, every process it started has been signalled
\* (or had ended by itself) and none is left running.
C8_TeardownOnEveryExit ==
    TaskReturned => \A p \in TaskProcs(i - 1) : ~procs[p].alive

\* C9: the throughput measurement runs before the teardown: the process of
\* the pass has not been sent its termination signal while it is measured.
C9_ThroughputBeforeTeardown ==
    pc \in {"speedIn", "speedOut"} =>
        \E p \in TaskProcs(i) : ~procs[p].stopped

\* C10: every outcome that reports a failed endpoint carries a populated
\* error reason.
C10_ErrorPopulated ==
    \A k \in DOMAIN results :
        results[k].status = "error" => Populated(results[k].error)

\* the generation detects readiness (startSingbox) instead of sleeping
Detects(v) == StartKind(v) # "sleep"

\* the generation has the 3000 ms liveness check
HasGraceCheck(v) == StartKind(v) \in {"detect", "detect2"}

\* C11: once a fatal marker has been read while start was pending, the
\* process is killed and start does not return it as a handle.
C11_FatalSupersedes ==
    \A p \in DOMAIN procs :
        procs[p].fatal => (~procs[p].alive /\ ~procs[p].handed)

\* C12: when no readiness marker (and no promotion by the liveness check)
\* has come by the startup timeout, start does not stay pending, the
\* process is killed and start fails instead of returning a handle.
C12_StartupTimeout ==
    Detects(variant) =>
        /\ (pc = "start" /\ ready = "no") => now <= StartupTimeout(variant)
        /\ \A p \in DOMAIN procs :
               procs[p].timedOut => (~procs[p].alive /\ ~procs[p].handed)

\* C13: start returns a handle no earlier than one settle delay after the
\* process was made ready, and every request of a pass (the warm-up
\* included) goes through a process start has returned.
C13_SettleBeforeProbes ==
    Detects(variant) =>
        /\ \A p \in DOMAIN procs :
               procs[p].handed => procs[p].waited >= STARTUP_DELAY(variant)
        /\ pc \in {"warmup", "probe1", "probe2", "probe3"} =>
               (cur \in DOMAIN procs /\ procs[cur].handed)

C13_Witness ==
    /\ pc = "warmup"
    /\ variant = "index1"
    /\ procs[cur].handed
    /\ procs[cur].waited = STARTUP_DELAY(variant)

\* C14: at the end of the grace period a process that has shown no marker
\* is looked at: if it runs it is made ready there and then and the resolve
\* timer is set one settle delay later; if it does not run it is not made
\* ready.
C14_GracePromotion ==
    (HasGraceCheck(variant) /\ pc = "start") =>
        /\ graceSaw = "alive" =>
               /\ ready # "no"
               /\ settle # {}
               /\ \A d \in settle : d <= GraceDelay + STARTUP_DELAY(variant)
        /\ graceSaw = "dead" => ready # "grace"
        /\ ready = "grace" =>
               /\ graceSaw = "alive"
               /\ readyAt = GraceDelay
               /\ settle = {GraceDelay + STARTUP_DELAY(variant)}

C14_Witness ==
    /\ pc = "start"
    /\ ready = "grace"
    /\ procs[cur].alive
    /\ now = GraceDelay + STARTUP_DELAY(variant)

\* the finally block of process p has run to its end
TeardownDone(p) == procs[p].stopped /\ ~(p = cur /\ pc = "finallyWait")

\* C15: teardown first requests graceful termination, then waits, and the
\* forceful kill reaches the process if and only if it still ran after the
\* wait.
C15_GracefulThenForce ==
    \A p \in DOMAIN procs :
        /\ procs[p].stopped =>
               /\ procs[p].asked
               /\ procs[p].forced => procs[p].graceWait
        /\ TeardownDone(p) =>
               /\ procs[p].graceWait
               /\ procs[p].forced <=> procs[p].ranAfterWait

C17_OnePerPort ==
    \A p, q \in DOMAIN procs :
        (p # q /\ procs[p].alive /\ procs[q].alive) =>
            procs[p].port # procs[q].port

\* the port of the endpoint with index 0
BasePort(v) == ListenPort(v, 0)

\* C18: the port of the endpoint with index i is basePort + i, so two
\* endpoints of a run never have the same port.
C18_PortByIndex ==
    /\ \A p \in DOMAIN procs :
           procs[p].port = BasePort(variant) + procs[p].task
    /\ \A p, q \in DOMAIN procs :
           procs[p].task # procs[q].task => procs[p].port # procs[q].port

\* the control flow is inside the task of link index i
InTask ==
    pc \in {"convert", "write", "spawn", "start", "warmup", "probe1",
            "probe2", "probe3", "speedIn", "speedOut", "finally",
            "finallyWait"}

\* C19: the runner is sequential (C = 1): while the task of endpoint i is
\* in flight the outcomes of endpoints 0 .. i-1, and only those, are
\* recorded, and the process being supervised belongs to endpoint i.
C19_Sequential ==
    /\ InTask =>
           /\ i < Len(links)
           /\ Len(results) = i
           /\ \A k \in DOMAIN results : results[k].link = k - 1
    /\ cur # 0 => (InTask /\ procs[cur].task = i)

C19_Witness ==
    /\ pc = "probe1"
    /\ i = 1
    /\ Len(results) = 1
    /\ results[1].status = "working"

\* the number of the counted request the pass has come to (0: the warm-up)
ProbeNo ==
    CASE pc = "warmup" -> 0
      [] pc = "probe1" -> 1
      [] pc = "probe2" -> 2
      [] pc = "probe3" -> 3
      [] OTHER -> 4

\* C20: the probes of a task are strictly ordered: at most one request is
\* under way at any time, and when the k-th counted request is issued the
\* results of the k-1 before it (and of the warm-up) are known.
C20_ProbesOrdered ==
    /\ flight <= 1
    /\ flight = 1 =>
           /\ ProbeNo <= 3
           /\ Len(attempts) = (IF ProbeNo = 0 THEN 0 ELSE ProbeNo - 1)
           /\ (ProbeNo >= 1 /\ HasWarmup(variant)) => warm # "none"
    /\ ProbeNo = 4 => flight = 0

C20_Witness ==
    /\ pc = "probe3"
    /\ flight = 1
    /\ Len(attempts) = 2
    /\ variant = "part001"

\* C21: every pass makes exactly one warm-up request, before probe 1, and
\* its outcome is not among the counted ones: the requests made are the
\* counted probes and one more, and the verdict and the chosen probe follow
\* from the counted probes.
C21_WarmupDiscarded ==
    /\ pc = "probe1" =>
           /\ warm # "none"
           /\ attempts = <<>>
           /\ sent - flight = 1
    /\ verdict # "none" =>
           /\ sent = Len(attempts) + 1
           /\ verdict = "working" <=> Successes(attempts) >= 2
           /\ chosen \in 1..Len(attempts)

\* the task of link index idx holds a descriptor: it has converted the link
HoldsDescriptor ==
    \/ InTask /\ pc # "convert"
    \/ TaskReturned /\ links[i] # "bad"

\* the link the descriptor held was converted from
DescriptorLink == IF InTask THEN links[i + 1] ELSE links[i]

\* C22: where a certificate-relaxed pass exists, the descriptor object
\* obtained from the converter is never changed: during the task and after
\* it, whatever passes were run, it is as it was converted, with the same
\* certificate-validation setting.
C22_DescriptorUnchanged ==
    (TwoPass(variant) /\ HoldsDescriptor) =>
        outbound = convertToOutbounds(DescriptorLink)

\* the task that has just returned ended in a pass that voted 'not working'
ReturnedNotWorking ==
    /\ TaskReturned
    /\ results[Len(results)].status = "error"
    /\ passes # <<>>
    /\ passes[Len(passes)].attempts # <<>>

\* C23: when the verdict is 'not working' the error of the outcome is the
\* failure reason of the chosen probe, which is a failed probe, and of no
\* other probe.
C23_ErrorOfChosen ==
    ReturnedNotWorking =>
        LET r == passes[Len(passes)] IN
            /\ ~r.attempts[r.chosen]
            /\ results[Len(results)].error = Reason("probe", r.chosen)

\* C24: the task of a link that cannot be converted does nothing but
\* convert: it writes no config, starts no process, makes no request and
\* runs no pass (strict or relaxed); it returns an error outcome naming the
\* conversion, and the loop goes on to the next link.
C24_ConversionShortCircuit ==
    /\ (InTask /\ links[i + 1] = "bad") =>
           /\ pc = "convert"
           /\ passes = <<>>
           /\ TaskProcs(i) = {}
           /\ sent = 0
    /\ (TaskReturned /\ links[i] = "bad") =>
           /\ results[Len(results)].link = i - 1
           /\ results[Len(results)].status = "error"
           /\ results[Len(results)].error = Reason("conversion", 0)
           /\ passes = <<>>
           /\ TaskProcs(i - 1) = {}

C24_Witness ==
    /\ Len(links) = 2
    /\ links[1] = "bad"
    /\ i = 1
    /\ pc = "probe2"
    /\ results[1].status = "error"

\* the task that has just returned ended in a pass that voted 'working'
ReturnedWorking ==
    /\ TaskReturned
    /\ passes # <<>>
    /\ passes[Len(passes)].success

\* C25: a failed throughput measurement does not change the status: the
\* outcome of a task whose pass voted 'working' has status 'working'
\* whatever the measurement gave, a failed measurement is recorded in the
\* outcome as a missing reading, and only 'working' outcomes carry one.
C25_ThroughputNoDowngrade ==
    /\ ReturnedWorking =>
           /\ results[Len(results)].status = "working"
           /\ results[Len(results)].speed = speed
    /\ \A k \in DOMAIN results :
           results[k].speed = "fail" => results[k].status = "working"

C25_Witness ==
    /\ ReturnedWorking
    /\ speed = "fail"
    /\ results[Len(results)].status = "working"
    /\ results[Len(results)].speed = "fail"
    /\ variant = "part001"

\* the number of providers of the answer whose field f holds val
Votes(val, f) ==
    Cardinality({n \in Providers : ipData.providers[n][f] = val})

\* val is the non-empty value of field f that at least two providers give
\* and that more providers give than any other
Majority(val, f) ==
    /\ val # ""
    /\ Votes(val, f) >= 2
    /\ \A w \in Places \ {"", val} : Votes(w, f) < Votes(val, f)

\* C26: a field of the outcome is the value with the strictly highest count
\* among the providers' non-empty values when that count is at least 2,
\* whatever the order of the providers.
C26_GeoMajority ==
    pc = "located" =>
        \A f \in Fields : \A val \in Places :
            Majority(val, f) => geo[f] = val

\* no non-empty value of field f is given by two providers
NoMajority(f) == \A val \in Places \ {""} : Votes(val, f) < 2

\* the places in the generation's order of the providers that have a
\* non-empty value for field f
Having(f) ==
    {k \in DOMAIN Priority(variant) :
        ipData.providers[Priority(variant)[k]][f] # ""}

\* the value of field f of the first of them ('N/A' stands for empty)
FirstHaving(f) ==
    IF Having(f) = {} THEN "N/A"
    ELSE ipData.providers[Priority(variant)[
             CHOOSE k \in Having(f) : \A j \in Having(f) : k <= j]][f]

\* C27: a field for which no value has a count of at least 2 is the value
\* of the first provider in the fixed order that has a non-empty value for
\* that field, and empty if none has; each field is decided by itself.
C27_GeoPriorityPerField ==
    pc = "located" =>
        \A f \in Fields : NoMajority(f) => geo[f] = FirstHaving(f)

\* C28: a run that loaded no links ends with a status other than 0; a run
\* that went through all its links and wrote the report ends with status 0,
\* whatever the outcomes were.
C28_ExitStatus ==
    /\ pc = "noLinks" => exitStatus(pc) # 0
    /\ pc = "done" => exitStatus(pc) = 0

\* C29: the results are written exactly once in a run over some links: never
\* twice, never while a task is in flight or before every link has its
\* outcome, and a run that has ended has written them.
C29_PersistOnce ==
    /\ report.writes <= 1
    /\ report.written =>
           /\ report.writes = 1
           /\ ~InTask
           /\ Len(results) = Len(links)
           /\ report.outcomes = results
    /\ (RunEnded /\ Len(links) > 0) => report.writes = 1

\* the endpoint the link at position k (from 1) names: the first position
\* holding the same link up to its display name
identity(k) == IF twin /\ k = 2 THEN 1 ELSE k

\* C30: every endpoint is tested and reported once in a run: no task is
\* started for a link whose endpoint already has its outcome, and no two
\* outcomes are of one endpoint.
C30_OncePerIdentity ==
    /\ InTask =>
           \A k \in DOMAIN results :
               identity(results[k].link + 1) # identity(i + 1)
    /\ \A k, j \in DOMAIN results :
           identity(results[k].link + 1) = identity(results[j].link + 1) =>
               k = j

\* ------------------------------------------------ registry and scheduler

\* the number of failed checks at the end of a history: everything after the
\* last successful check
Trailing(checks) ==
    LET ok == {j \in 1..Len(checks) : checks[j].success}
    IN  Len(checks) - (IF ok = {} THEN 0
                        ELSE CHOOSE j \in ok : \A h \in ok : h <= j)

Elapsed == today - entry.checks[Len(entry.checks)].timestamp

\* C31: an entry without checks is due; otherwise it is due exactly when
\* the time since its last check is at least the interval of its failure
\* streak: a day for a streak of 0 to 6, a week for 7 to 29, a month for 30
\* and more, the streak being the failed checks counted backward from the
\* most recent one
C31_DuePolicy ==
    selected # "unasked" =>
        ((selected = "due") <=>
            \/ entry.checks = <<>>
            \/ /\ entry.checks # <<>>
               /\ \/ Trailing(entry.checks) \in 0..6 /\ Elapsed >= 1
                  \/ Trailing(entry.checks) \in 7..29 /\ Elapsed >= 7
                  \/ Trailing(entry.checks) >= 30 /\ Elapsed >= 30)

\* a streak of 10 failures checked 8 days ago has been found due
C31_Witness ==
    /\ Len(entry.checks) = 11
    /\ entry.checks[1].success
    /\ Trailing(entry.checks) = 10
    /\ Elapsed = 8
    /\ selected = "due"

\* the same streak checked 2 days ago has been found not due
C31_WitnessNotDue ==
    /\ Trailing(entry.checks) = 10
    /\ Elapsed = 2
    /\ selected = "notDue"

\* C32: the check history only grows at its end: after N appends to an
\* identity its checks are what was stored followed by the N appended
\* checks in call order (N checks for a new identity), nothing altered or
\* removed
C32_AppendOnly ==
    /\ entry.checks = loaded \o log
    /\ Len(entry.checks) = Len(loaded) + Len(log)

\* a new identity after two appends, a failure then a failure
C32_Witness ==
    /\ loaded = <<>>
    /\ Len(log) = 2
    /\ ~log[1].success
    /\ ~log[2].success
    /\ Len(entry.checks) = 2

\* C33: the derived status is pending while there are no checks, and
\* otherwise working or error as the last check succeeded or failed
C33_StatusMirrorsLast ==
    /\ entry.checks = <<>> => entry.derivedStatus = "pending"
    /\ entry.checks # <<>> =>
           entry.derivedStatus =
               IF entry.checks[Len(entry.checks)].success THEN "working"
               ELSE "error"

\* a first successful check followed by a failed one: the status is error
C33_Witness ==
    /\ Len(log) = 2
    /\ entry.checks[1].success
    /\ ~log[2].success
    /\ entry.derivedStatus = "error"

\* ------------------------------------------------ start, passes, outcome

\* startSingbox of index.js: the marker, the exit handler and the 3000 ms
\* check together
Detecting == StartKind(variant) \in {"detect", "detect2"}

\* C34: the handle start returns refers to a running process: a process
\* that exits during the settle delay, after it was made ready, yields no
\* handle
C34_HandleIsLive ==
    [][(Detecting /\ pc = "start" /\ handle')
           => procs'[cur'].alive]_vars

\* C35: a process that is running at the 3000 ms check is promoted to
\* ready, marker or no marker, and the startup timeout is disarmed for good:
\* start does not fail with a startup timeout for it
C35_GraceRescues ==
    Detecting =>
        /\ (pc = "start" /\ ~graceArmed /\ procs[cur].alive) =>
               (~toArmed /\ ready # "no" /\ settle # {})
        /\ graceSaw = "alive" => ~toArmed
        /\ \A p \in DOMAIN procs : ~procs[p].timedOut

\* the check has promoted a running process that printed no marker
C35_Witness ==
    /\ Detecting
    /\ pc = "start"
    /\ procs[cur].alive
    /\ graceSaw = "alive"
    /\ ready = "grace"
    /\ now > GraceDelay

\* the generations whose pass keeps a finalResult
KeepsFinalResult == variant \notin {"part000", "part001"}

\* C36: in a pass with a tie-break probe the probe kept as the pass's result
\* succeeded, also when the verdict is not working (1 success of 3): the
\* fallback to the third probe is never taken
C36_TieBreakKeepsSuccess ==
    KeepsFinalResult =>
        /\ (Len(attempts) = 3 /\ chosen # 0) => attempts[chosen]
        /\ \A k \in DOMAIN passes :
               Len(passes[k].attempts) = 3 =>
                   passes[k].attempts[passes[k].chosen]

\* a pass found not working on 1 success of 3 keeps that success
C36_Witness ==
    /\ KeepsFinalResult
    /\ \E k \in DOMAIN passes :
           /\ Len(passes[k].attempts) = 3
           /\ ~passes[k].success
           /\ passes[k].attempts[passes[k].chosen]
           /\ ~passes[k].attempts[3]

\* processes spawned and started, and requests made, for the endpoint under
\* test so far
RECURSIVE SumOver(_, _)
SumOver(f, n) == IF n = 0 THEN 0 ELSE f[n] + SumOver(f, n - 1)

SpawnedSoFar ==
    SumOver([k \in DOMAIN passes |-> IF passes[k].spawned THEN 1 ELSE 0],
            Len(passes)) + (IF cur # 0 THEN 1 ELSE 0)

StartedSoFar ==
    SumOver([k \in DOMAIN passes |-> IF passes[k].handed THEN 1 ELSE 0],
            Len(passes)) + (IF handle THEN 1 ELSE 0)

SentSoFar ==
    SumOver([k \in DOMAIN passes |-> passes[k].sent], Len(passes)) + sent

\* C37: an endpoint costs at most 2 processes and 8 requests, 4 a pass (the
\* warm-up and up to 3 counted probes); a pass whose start failed made no
\* request and has no started process, and an endpoint whose conversion
\* failed has neither process nor request
C37_CostPerEndpoint ==
    /\ SpawnedSoFar <= 2
    /\ StartedSoFar <= 2
    /\ SentSoFar <= 8
    /\ sent <= 4
    /\ ~handle => sent = 0
    /\ \A k \in DOMAIN passes :
           /\ passes[k].sent <= 4
           /\ ~passes[k].handed => passes[k].sent = 0
           /\ passes[k].handed => passes[k].spawned
    /\ (pc = "loop" /\ i > 0 /\ Len(results) = i
          /\ results[i].error = Reason("conversion", 0)) =>
           (SpawnedSoFar = 0 /\ SentSoFar = 0 /\ TaskProcs(i - 1) = {})

\* both passes ran in full: 2 processes and 8 requests
C37_Witness ==
    /\ Len(passes) = 2
    /\ passes[1].handed /\ passes[2].handed
    /\ passes[1].sent = 4 /\ passes[2].sent = 4
    /\ SpawnedSoFar = 2
    /\ SentSoFar = 8

\* a strict pass whose start failed, followed by a relaxed pass with requests
C37_WitnessStartFailed ==
    /\ Len(passes) = 1
    /\ passes[1].spawned /\ ~passes[1].handed /\ passes[1].sent = 0
    /\ sent = 4

\* the task of link i has just returned after a strict and a relaxed pass
\* that were both found not working
BothPassesFailed ==
    /\ TwoPass(variant)
    /\ pc = "loop"
    /\ i > 0
    /\ Len(results) = i
    /\ Len(passes) = 2
    /\ ~passes[1].success
    /\ ~passes[2].success
    /\ passes[2].allowInsecure

\* the errors the relaxed pass itself came across
RelaxedErrors ==
    IF Populated(passes[2].error) THEN {passes[2].error}
    ELSE {Reason("probe", k) : k \in {j \in DOMAIN passes[2].attempts :
                                          ~passes[2].attempts[j]}}
         \cup {Reason("unknown", 0), Reason("undefined", 0)}

\* C38: when the strict and the relaxed pass both yield not working, the
\* outcome is made from the relaxed pass alone, nothing of the strict pass
\* is left, and the error outcome says insecure = false although the relaxed
\* variant was tried
C38_RelaxedFailureOutcome ==
    BothPassesFailed =>
        /\ results[i].status = "error"
        /\ results[i].error \in RelaxedErrors
        /\ results[i].insecure = "false"
        /\ passes[1].error = NoReason
        /\ passes[1].attempts = <<>>

\* the strict pass failed on its probes and the relaxed pass at its start:
\* the outcome carries the start's error
C38_Witness ==
    /\ BothPassesFailed
    /\ passes[1].sent > 0
    /\ passes[2].insecure
    /\ passes[2].sent = 0
    /\ Populated(passes[2].error)
    /\ results[i].error = passes[2].error
    /\ results[i].insecure = "false"
====
